---- MODULE Spec2Model ----
(***************************************************************************)
(* A model of lib/index.mjs of unicode-variants: folding of strings        *)
(* (asciifold), the builder of the process-wide unicode_map and of the     *)
(* multi-character matcher (generateSets, generateMap, initialize), and    *)
(* the sequence scan of getPattern with its pattern compiler               *)
(* (mapSequence, substringsToPattern, sequencesToPattern).                 *)
(*                                                                         *)
(* Strings are sequences of code points (naturals).  Every string the     *)
(* library processes in this model is made of BMP characters, so a code    *)
(* point is also one UTF-16 code unit and str.length is Len(str).  A       *)
(* regular-expression source is kept as a syntax tree (literal,            *)
(* alternation, concatenation, undefined) and read through Lang, the set   *)
(* of strings the tree matches.  The modelled alphabet holds no regex      *)
(* metacharacter.                                                          *)
(***************************************************************************)
EXTENDS Naturals, Sequences, FiniteSets, TLC

VARIABLES
    unicode_map,      \* index.mjs:10  [defined, map]: the process-wide map
    multi_char_reg,   \* index.mjs:13  [defined, keys]: keys of the matcher, in order
    pc,               \* position of the caller: idle, scan, done, folded, built
    input,            \* argument of the running call (a raw string)
    str,              \* getPattern: the folded input; fold: the result
    i,                \* getPattern: the scan position
    sequences,        \* getPattern: the live sequences
    pattern,          \* getPattern: the fragments emitted so far, in order
    ret,              \* getPattern: the value returned
    built             \* generateSets/generateMap: [ranges, sets, map] returned

vars == <<unicode_map, multi_char_reg, pc, input, str, i, sequences, pattern, ret, built>>

----------------------------------------------------------------------------
(* Bounds of the model.                                                    *)

\* longest raw input handed to getPattern
MaxLen == 3
\* longest raw input handed to fold on its own
MaxFoldLen == 3
\* most code-point ranges in one list of ranges
MaxRanges == 2

----------------------------------------------------------------------------
(* Characters.  The tables give, for the characters of the model, what     *)
(* the JavaScript runtime's String.prototype.normalize and toLowerCase     *)
(* return (Unicode 14 data).                                               *)

\* the characters of the model, by code point
U == [
    I |-> 73,
    i |-> 105,
    o |-> 111,
    v |-> 118,
    x |-> 120,
    Slash |-> 47,
    a |-> 97,
    e |-> 101,
    AE |-> 198,
    ae |-> 230,
    Iacute |-> 205,
    iacute |-> 237,
    Oslash |-> 216,
    oslash |-> 248,
    Acute |-> 769,
    HebZarqa |-> 1428,
    HebTipeha |-> 1430,
    TibAA |-> 3953,
    TibI |-> 3954,
    TibII |-> 3955,
    TibRevI |-> 3968,
    TibOO |-> 3969,
    RomanCapII |-> 8545,
    Roman1 |-> 8560,
    Roman2 |-> 8561,
    Roman3 |-> 8562,
    Roman4 |-> 8563,
    Roman5 |-> 8564,
    Roman6 |-> 8565,
    Roman7 |-> 8566,
    Roman8 |-> 8567,
    Hangul |-> 54306,
    JamoL |-> 4369,
    JamoV |-> 4458,
    JamoT |-> 4545,
    MathI |-> 119842,
    StrokeA |-> 11365,
    FracSlash |-> 8260,
    DivSlash |-> 8725,
    MidDot |-> 183,
    HalfRing |-> 702]

\* c.normalize('NFKD') of one character
NFKDChar(c) ==
    CASE c = U.Iacute -> <<U.I, U.Acute>>
      [] c = U.iacute -> <<U.i, U.Acute>>
      [] c = U.TibII -> <<U.TibAA, U.TibI>>
      [] c = U.TibOO -> <<U.TibAA, U.TibRevI>>
      [] c = U.RomanCapII -> <<U.I, U.I>>
      [] c = U.Roman1 -> <<U.i>>
      [] c = U.Roman2 -> <<U.i, U.i>>
      [] c = U.Roman3 -> <<U.i, U.i, U.i>>
      [] c = U.Roman4 -> <<U.i, U.v>>
      [] c = U.Roman5 -> <<U.v>>
      [] c = U.Roman6 -> <<U.v, U.i>>
      [] c = U.Roman7 -> <<U.v, U.i, U.i>>
      [] c = U.Roman8 -> <<U.v, U.i, U.i, U.i>>
      [] c = U.Hangul -> <<U.JamoL, U.JamoV, U.JamoT>>
      [] c = U.MathI -> <<U.i>>
      [] OTHER -> <<c>>

\* canonical combining class
CCC(c) ==
    CASE c = U.Acute -> 230
      [] c = U.HebZarqa -> 230
      [] c = U.HebTipeha -> 220
      [] c = U.TibAA -> 129
      [] c = U.TibI -> 130
      [] c = U.TibRevI -> 130
      [] OTHER -> 0

\* c.toLowerCase() of one character (each is one character in this alphabet)
LowerChar(c) ==
    CASE c = U.I -> U.i
      [] c = U.Iacute -> U.iacute
      [] c = U.Oslash -> U.oslash
      [] c = U.AE -> U.ae
      [] c = U.RomanCapII -> U.Roman2
      [] OTHER -> c

\* s.toLowerCase()
ToLowerCase(s) == [k \in 1..Len(s) |-> LowerChar(s[k])]

RECURSIVE FlatMap(_, _)
\* the concatenation of Op(s[k]) over the characters of s
FlatMap(Op(_), s) ==
    IF s = <<>> THEN <<>> ELSE Op(Head(s)) \o FlatMap(Op, Tail(s))

RECURSIVE CanonicalOrder(_)
\* the canonical ordering step of normalize: combining marks sorted by class
CanonicalOrder(s) ==
    LET bad == {k \in 1..(Len(s) - 1) : CCC(s[k + 1]) > 0 /\ CCC(s[k]) > CCC(s[k + 1])}
    IN IF bad = {} THEN s
       ELSE LET k == CHOOSE m \in bad : \A n \in bad : m <= n
            IN CanonicalOrder([n \in 1..Len(s) |->
                    IF n = k THEN s[k + 1] ELSE IF n = k + 1 THEN s[k] ELSE s[n]])

\* s.normalize('NFKD')
NFKD(s) == CanonicalOrder(FlatMap(NFKDChar, s))

\* c.normalize('NFKD') as decompose calls it on one character
NFKD1(c) == NFKD(<<c>>)

\* s.normalize('NFC') for s the decomposition of one character: the canonical
\* compositions of the alphabet (U+0F73 and the compatibility characters are
\* not recomposed)
NFC(s) ==
    CASE s = <<U.I, U.Acute>> -> <<U.Iacute>>
      [] s = <<U.i, U.Acute>> -> <<U.iacute>>
      [] s = <<U.JamoL, U.JamoV, U.JamoT>> -> <<U.Hangul>>
      [] OTHER -> s

\* simple case folding, the 'i' flag of a 'u' regular expression
CaseFold(s) == ToLowerCase(s)

----------------------------------------------------------------------------
(* Folding.                                                                *)

max_char_length == 3

\* index.mjs:7 accent_pat
IsAccent(c) == (c >= 768 /\ c <= 879) \/ c = U.MidDot \/ c = U.HalfRing

\* index.mjs:18 latin_convert
latin_convert(c) ==
    CASE c = U.ae -> <<U.a, U.e>>
      [] c = U.StrokeA -> <<U.a>>
      [] c = U.oslash -> <<U.o>>
      [] c = U.FracSlash -> <<U.Slash>>
      [] c = U.DivSlash -> <<U.Slash>>
      [] OTHER -> <<>>

\* index.mjs:26 convert_pat and the replacer of asciifold
ConvertChar(c) ==
    IF c \in {U.ae, U.StrokeA, U.oslash, U.FracSlash, U.DivSlash} \/ IsAccent(c)
    THEN latin_convert(c)
    ELSE <<c>>

\* index.mjs:47 decompose
decompose(s) ==
    IF \E k \in 1..Len(s) : s[k] >= U.TibAA /\ s[k] <= U.TibOO
    THEN FlatMap(NFKD1, s)
    ELSE NFKD(s)

\* index.mjs:70 asciifold
asciifold(s) == FlatMap(ConvertChar, ToLowerCase(decompose(s)))

----------------------------------------------------------------------------
(* Regular-expression sources.  A source is a tree: a literal text, an     *)
(* alternation of sources, a concatenation of sources, or the JavaScript  *)
(* value undefined.  All nodes have the same three fields.                 *)

Lit(s) == [k |-> "lit", s |-> s, kids |-> <<>>]
Undefined == [k |-> "undefined", s |-> <<>>, kids |-> <<>>]

RECURSIVE IsEmptySource(_)
\* whether the source is the empty string '' (undefined is joined as '')
IsEmptySource(p) ==
    CASE p.k = "lit" -> p.s = <<>>
      [] p.k = "undefined" -> TRUE
      [] p.k = "cat" -> \A n \in 1..Len(p.kids) : IsEmptySource(p.kids[n])
      [] OTHER -> FALSE

\* JavaScript truthiness of a string-or-undefined value
Truthy(p) == ~IsEmptySource(p)

\* regex.mjs escape_regex: a backslash before each metacharacter
MetaChars == {36, 40, 41, 42, 43, 46, 63, 91, 92, 93, 94, 123, 124, 125}
EscapeChar(c) == IF c \in MetaChars THEN <<92, c>> ELSE <<c>>
escape_regex(s) == FlatMap(EscapeChar, s)

RECURSIVE Unescape(_)
\* the text an escaped literal matches
Unescape(s) ==
    IF s = <<>> THEN <<>>
    ELSE IF Head(s) = 92 /\ Len(s) > 1 THEN <<s[2]>> \o Unescape(Tail(Tail(s)))
    ELSE <<Head(s)>> \o Unescape(Tail(s))

\* regex.mjs sequencePattern: the fragments in order, one after the other
\* (an undefined fragment is joined as the empty string)
sequencePattern(array) == [k |-> "cat", s |-> <<>>, kids |-> array]

\* regex.mjs arrayToPattern: one alternation of the non-empty alternatives
arrayToPattern(chars) ==
    LET kept == SelectSeq(chars, Truthy)
    IN IF Len(kept) = 0 THEN Lit(<<>>)
       ELSE IF Len(kept) = 1 THEN kept[1]
       ELSE [k |-> "alt", s |-> <<>>, kids |-> kept]

\* regex.mjs setToPattern: the alternation of the members of a set, in
\* insertion order (the set is kept as the sequence of its members)
setToPattern(set) == arrayToPattern([n \in 1..Len(set) |-> Lit(set[n])])

\* all concatenations of a string of A with a string of B
ConcatSets(A, B) == {x \o y : x \in A, y \in B}

RECURSIVE Lang(_)
RECURSIVE LangCat(_)
\* the strings the source matches from its first to its last character
Lang(p) ==
    CASE p.k = "lit" -> {Unescape(p.s)}
      [] p.k = "undefined" -> {<<>>}
      [] p.k = "cat" -> LangCat(p.kids)
      [] OTHER -> UNION {Lang(p.kids[n]) : n \in 1..Len(p.kids)}
LangCat(kids) ==
    IF kids = <<>> THEN {<<>>} ELSE ConcatSets(Lang(Head(kids)), LangCat(Tail(kids)))

\* new RegExp('^' + p + '$', 'iu') matches s
MatchesWhole(p, s) == \E w \in Lang(p) : CaseFold(w) = CaseFold(s)

\* new RegExp(p, 'iu') matches s: some substring of s is matched
MatchesIn(p, s) ==
    \E a \in 1..(Len(s) + 1) : \E b \in (a - 1)..Len(s) :
        MatchesWhole(p, SubSeq(s, a, b))

----------------------------------------------------------------------------
(* The map builder.  A list of ranges is a sequence of <<low, high>>.      *)

\* String.fromCharCode(n): one UTF-16 code unit, the low 16 bits of n
fromCharCode(n) == <<n % 65536>>

\* index.mjs:93-122, the body of the loop of generator for one code point n:
\* the value yielded, as a one-element sequence, or nothing
generatorStep(n) ==
    LET composed == fromCharCode(n)
        folded == asciifold(composed)
        decomposed == NFKD(composed)
        recomposed == NFC(decomposed)
    IN IF folded = ToLowerCase(composed) THEN <<>>
       ELSE IF Len(folded) > max_char_length THEN <<>>
       ELSE IF Len(folded) = 0 THEN <<>>
       ELSE IF recomposed = composed /\ folded = decomposed THEN <<>>
       ELSE <<[folded |-> folded, composed |-> composed, code_point |-> n]>>

RECURSIVE generatorRange(_, _)
\* index.mjs:91 the inner loop of generator, from n to high
generatorRange(n, high) ==
    IF n > high THEN <<>> ELSE generatorStep(n) \o generatorRange(n + 1, high)

RECURSIVE generator(_)
\* index.mjs:88 generator: the values yielded, in order
generator(code_points) ==
    IF code_points = <<>> THEN <<>>
    ELSE generatorRange(Head(code_points)[1], Head(code_points)[2])
            \o generator(Tail(code_points))

\* unicode_sets: the keys in insertion order, and each key's Set (as the
\* sequence of its members in insertion order)
EmptySets == [keys |-> <<>>, set |-> <<>>]

SetOf(sets, folded) ==
    IF folded \in DOMAIN sets.set THEN sets.set[folded] ELSE <<>>

\* index.mjs:143 addMatching
addMatching(sets, folded, to_add) ==
    LET folded_set == SetOf(sets, folded)
    IN IF MatchesWhole(setToPattern(folded_set), to_add) THEN sets
       ELSE [keys |-> IF folded \in DOMAIN sets.set THEN sets.keys
                      ELSE Append(sets.keys, folded),
             set |-> (folded :> Append(folded_set, escape_regex(to_add))) @@ sets.set]

RECURSIVE addAll(_, _)
\* index.mjs:158 the loop of generateSets over the values of generator
\* (the test next = next makes the evaluator compute next before the next turn)
addAll(sets, values) ==
    IF values = <<>> THEN sets
    ELSE LET value == Head(values)
             first == addMatching(sets, value.folded, value.folded)
             next == addMatching(first, value.folded, value.composed)
         IN IF first = first /\ next = next THEN addAll(next, Tail(values)) ELSE sets

\* index.mjs:133 generateSets
generateSets(code_points) == addAll(EmptySets, generator(code_points))

RECURSIVE InsertByLength(_, _)
\* x put into the sequence sorted by descending length, after its equals
InsertByLength(sorted, x) ==
    IF sorted = <<>> THEN <<x>>
    ELSE IF Len(Head(sorted)) >= Len(x) THEN <<Head(sorted)>> \o InsertByLength(Tail(sorted), x)
    ELSE <<x>> \o sorted

RECURSIVE SortByLength(_)
\* index.mjs:196 multi_char.sort((a, b) => b.length - a.length), a stable sort
SortByLength(xs) ==
    IF xs = <<>> THEN <<>>
    ELSE InsertByLength(SortByLength(SubSeq(xs, 1, Len(xs) - 1)), xs[Len(xs)])

\* index.mjs:184-189 the map part of generateMap
MapOfSets(sets) == [folded \in DOMAIN sets.set |-> setToPattern(sets.set[folded])]

LongerThanOne(s) == Len(s) > 1

\* index.mjs:191-198 the matcher part of generateMap: the alternatives of
\* multi_char_reg in their order
MultiCharOfSets(sets) ==
    SortByLength([n \in 1..Len(SelectSeq(sets.keys, LongerThanOne)) |->
                    escape_regex(SelectSeq(sets.keys, LongerThanOne)[n])])

\* index.mjs:173 generateMap: the map returned
generateMap(code_points) == MapOfSets(generateSets(code_points))

\* index.mjs:427-432 substr.match(multi_char_reg) with match.index === 0: the
\* match array, <<match[0]>>, or the empty sequence for null.  The matcher is
\* the alternation of the keys in their order, so the text matched at index
\* 0 is the first alternative that is a prefix of s; the matcher of no key
\* is new RegExp('','u'), which matches the empty text at index 0
MatchAtStart(keys, s) ==
    LET hits == SelectSeq(keys, LAMBDA key :
                    Len(key) <= Len(s) /\ SubSeq(s, 1, Len(key)) = Unescape(key))
    IN IF keys = <<>> THEN <<<<>>>>
       ELSE IF hits = <<>> THEN <<>>
       ELSE <<Unescape(hits[1])>>

\* index.mjs:415 str.match(multi_char_reg) is truthy: the matcher matches
\* somewhere in s (the matcher of no key matches every string)
MatchesMulti(keys, s) ==
    \/ keys = <<>>
    \/ \E a \in 1..Len(s) : MatchAtStart(keys, SubSeq(s, a, Len(s))) # <<>>

----------------------------------------------------------------------------
(* The pattern compiler.  m is the value of unicode_map.                   *)

RECURSIVE SumLen(_)
SumLen(strings) ==
    IF strings = <<>> THEN 0 ELSE Len(Head(strings)) + SumLen(Tail(strings))

\* index.mjs:210 mapSequence
mapSequence(m, strings, min_replacement) ==
    LET InMap(s) == s \in DOMAIN m
        chars_replaced == SumLen(SelectSeq(strings, InMap))
        mapped == [n \in 1..Len(strings) |->
                      IF ~InMap(strings[n]) THEN Lit(strings[n])
                      ELSE IF Truthy(m[strings[n]]) THEN m[strings[n]]
                      ELSE Lit(strings[n])]
    IN IF chars_replaced >= min_replacement THEN sequencePattern(mapped)
       ELSE Undefined

RECURSIVE allSubstrings(_)
\* strings.mjs allSubstrings: every way to cut s into contiguous non-empty
\* pieces, each a sequence of strings
allSubstrings(s) ==
    IF Len(s) <= 1 THEN <<<<s>>>>
    ELSE LET suba == allSubstrings(Tail(s))
             Joined(n) == <<<<Head(s)>> \o Head(suba[n])>> \o Tail(suba[n])
             Split(n) == <<<<Head(s)>>>> \o suba[n]
         IN [n \in 1..(2 * Len(suba)) |->
                IF n % 2 = 1 THEN Joined((n + 1) \div 2) ELSE Split(n \div 2)]

Max(a, b) == IF a >= b THEN a ELSE b
Min(a, b) == IF a <= b THEN a ELSE b

\* index.mjs:246 the replacement count substringsToPattern asks of a partition
RequiredReplacement(s, min_replacement) == Max(min_replacement, Len(s) - 1)

\* index.mjs:242 substringsToPattern
substringsToPattern(m, s, min_replacement) ==
    LET substrings == allSubstrings(s)
        required == RequiredReplacement(s, min_replacement)
        all_patterns == [n \in 1..Len(substrings) |->
                            mapSequence(m, substrings[n], required)]
        patterns == SelectSeq(all_patterns, Truthy)
    IN IF Len(patterns) > 0 THEN arrayToPattern(patterns) ELSE Undefined

\* index.mjs:275 the number of parts of a sequence sequencesToPattern compiles
CompiledLength(sequence, all) ==
    IF all THEN Len(sequence.parts) ELSE Len(sequence.parts) - 1

\* index.mjs:269 sequencesToPattern
sequencesToPattern(m, seqs, all) ==
    arrayToPattern([n \in 1..Len(seqs) |->
        sequencePattern([j \in 1..CompiledLength(seqs[n], all) |->
            substringsToPattern(m, seqs[n].substrs[j], 1)])])

----------------------------------------------------------------------------
(* Sequences of parts.  Positions are those of the source: 0-based.        *)

Part(start, substr) ==
    [start |-> start, end |-> start + Len(substr), length |-> Len(substr), substr |-> substr]

\* index.mjs:349 constructor
NewSequence == [parts |-> <<>>, substrs |-> <<>>, start |-> 0, end |-> 0]

\* index.mjs:358 add
SeqAdd(sequence, part) ==
    [parts |-> Append(sequence.parts, part),
     substrs |-> Append(sequence.substrs, part.substr),
     start |-> Min(part.start, sequence.start),
     end |-> Max(part.end, sequence.end)]

\* index.mjs:365 last (called on a sequence that has parts)
SeqLast(sequence) == sequence.parts[Len(sequence.parts)]

RECURSIVE AddParts(_, _)
AddParts(sequence, parts) ==
    IF parts = <<>> THEN sequence
    ELSE AddParts(SeqAdd(sequence, Head(parts)), Tail(parts))

\* index.mjs:376 clone
SeqClone(sequence, position, last_piece) ==
    LET n == Len(sequence.parts)
        clone_last == sequence.parts[n]
        cut == Min(position - clone_last.start, Len(last_piece.substr))
        last_substr == SubSeq(last_piece.substr, 1, cut)
    IN SeqAdd(AddParts(NewSequence, SubSeq(sequence.parts, 1, n - 1)),
              Part(clone_last.start, last_substr))

\* s.join('')
Join(strings) == FlatMap(LAMBDA s : s, strings)

RECURSIVE PartFiltered(_, _, _)
\* index.mjs:306-335 the callback of seq.parts.filter, from needle part j on
PartFiltered(part, needle_parts, j) ==
    IF j > Len(needle_parts) THEN FALSE
    ELSE LET needle_part == needle_parts[j]
         IN IF needle_part.start = part.start /\ needle_part.substr = part.substr
            THEN FALSE
            ELSE IF part.length = 1 \/ needle_part.length = 1
            THEN PartFiltered(part, needle_parts, j + 1)
            ELSE IF part.start < needle_part.start /\ part.end > needle_part.start
            THEN TRUE
            ELSE IF needle_part.start < part.start /\ needle_part.end > part.start
            THEN TRUE
            ELSE PartFiltered(part, needle_parts, j + 1)

\* index.mjs:294-341 one turn of the loop of inSequences: seq is equivalent
SameSequence(needle_seq, seq) ==
    /\ seq.start = needle_seq.start
    /\ seq.end = needle_seq.end
    /\ Join(seq.substrs) = Join(needle_seq.substrs)
    /\ \A n \in 1..Len(seq.parts) : ~PartFiltered(seq.parts[n], needle_seq.parts, 1)

\* index.mjs:290 inSequences
inSequences(needle_seq, seqs) ==
    \E n \in 1..Len(seqs) : SameSequence(needle_seq, seqs[n])

----------------------------------------------------------------------------
(* One turn of the scan loop of getPattern.                                *)

\* index.mjs:426-432 the match array at position pos, or the empty sequence
\* of s, or the empty sequence
MatchAt(keys, s, pos) == MatchAtStart(keys, SubSeq(s, pos + 1, Len(s)))

\* index.mjs:428 str.substring(i, i + 1)
CharAt(s, pos) == SubSeq(s, pos + 1, pos + 1)

NotAdding == <<"not-adding", <<>>>>

\* index.mjs:444 the sequence takes a new part at pos in place
ExtendsInPlace(sequence, pos) ==
    \/ sequence.parts = <<>>
    \/ SeqLast(sequence).length = 1
    \/ SeqLast(sequence).end <= pos

\* a faulty loop body in which the clone takes the place of the sequence it
\* was made from
ExtendOneReplacing(sequence, pos, match, char) ==
    IF ExtendsInPlace(sequence, pos)
    THEN IF match # <<>>
         THEN [sequence |-> SeqAdd(sequence, Part(pos, match[1])), clones |-> <<>>,
               types |-> {<<"match", match[1]>>}]
         ELSE [sequence |-> SeqAdd(sequence, Part(pos, char)), clones |-> <<>>,
               types |-> {<<"char", char>>}]
    ELSE IF match # <<>>
    THEN [sequence |-> SeqAdd(SeqClone(sequence, pos, SeqLast(sequence)), Part(pos, match[1])),
          clones |-> <<>>,
          types |-> {<<"match", match[1]>>}]
    ELSE [sequence |-> sequence, clones |-> <<>>, types |-> {NotAdding}]

\* index.mjs:441-469 the body of the loop over the live sequences, for one
\* sequence: the sequence afterwards, the clone made (if any), the type added
ExtendOne(sequence, pos, match, char) ==
    IF ExtendsInPlace(sequence, pos)
    THEN IF match # <<>>
         THEN [sequence |-> SeqAdd(sequence, Part(pos, match[1])), clones |-> <<>>,
               types |-> {<<"match", match[1]>>}]
         ELSE [sequence |-> SeqAdd(sequence, Part(pos, char)), clones |-> <<>>,
               types |-> {<<"char", char>>}]
    ELSE IF match # <<>>
    THEN [sequence |-> sequence,
          clones |-> <<SeqAdd(SeqClone(sequence, pos, SeqLast(sequence)), Part(pos, match[1]))>>,
          types |-> {}]
    ELSE [sequence |-> sequence, clones |-> <<>>, types |-> {NotAdding}]

\* index.mjs:437-471 the loop over the live sequences
ExtendAll(seqs, pos, match, char) ==
    LET one == [n \in 1..Len(seqs) |-> ExtendOne(seqs[n], pos, match, char)]
    IN [sequences |-> [n \in 1..Len(seqs) |-> one[n].sequence],
        overlapping |-> FlatMap(LAMBDA r : r.clones, one),
        added_types |-> UNION {one[n].types : n \in 1..Len(seqs)}]

RECURSIVE InsertByParts(_, _)
InsertByParts(sorted, x) ==
    IF sorted = <<>> THEN <<x>>
    ELSE IF Len(Head(sorted).parts) <= Len(x.parts)
    THEN <<Head(sorted)>> \o InsertByParts(Tail(sorted), x)
    ELSE <<x>> \o sorted

RECURSIVE SortByParts(_)
\* index.mjs:478 overlapping.sort((a, b) => a.length() - b.length())
SortByParts(xs) ==
    IF xs = <<>> THEN <<>>
    ELSE InsertByParts(SortByParts(SubSeq(xs, 1, Len(xs) - 1)), xs[Len(xs)])

RECURSIVE PushClones(_, _)
\* index.mjs:482-490 each clone joins the live set unless it is in it
PushClones(seqs, clones) ==
    IF clones = <<>> THEN seqs
    ELSE IF inSequences(Head(clones), seqs) THEN PushClones(seqs, Tail(clones))
    ELSE PushClones(Append(seqs, Head(clones)), Tail(clones))

\* index.mjs:500 the condition of the clean-up
Compacts(pos, added_types) ==
    pos > 0 /\ Cardinality(added_types) = 1 /\ NotAdding \notin added_types

\* index.mjs:502-504 the live set after the clean-up
Restart(seqs) == <<SeqAdd(NewSequence, SeqLast(seqs[1]))>>

\* index.mjs:424-507 one turn of the scan loop at position pos: the live
\* sequences and the emitted fragments afterwards
ScanTurn(m, keys, s, pos, seqs, emitted) ==
    LET ext == ExtendAll(seqs, pos, MatchAt(keys, s, pos), CharAt(s, pos))
    IN IF Len(ext.overlapping) > 0
       THEN [sequences |-> PushClones(ext.sequences, SortByParts(ext.overlapping)),
             pattern |-> emitted]
       ELSE IF Compacts(pos, ext.added_types)
       THEN [sequences |-> Restart(ext.sequences),
             pattern |-> Append(emitted, sequencesToPattern(m, ext.sequences, FALSE))]
       ELSE [sequences |-> ext.sequences, pattern |-> emitted]

\* the string a list of emitted fragments makes (pattern += fragment)
Emitted(fragments) == sequencePattern(fragments)

----------------------------------------------------------------------------
(* The inputs of the model.                                                *)

RECURSIVE StringsUpTo(_, _)
\* the strings over alphabet of length at most n
StringsUpTo(alphabet, n) ==
    IF n = 0 THEN {<<>>}
    ELSE LET shorter == StringsUpTo(alphabet, n - 1)
         IN shorter \cup {Append(s, c) : s \in shorter, c \in alphabet}

\* code_points.mjs code_points: the default ranges
code_points == <<<<U.Roman1, U.Roman8>>>>

\* ranges callers hand to initialize, generateSets and generateMap
RangePool ==
    { <<U.Roman1, U.Roman3>>, <<U.Roman2, U.Roman2>>, <<U.Roman2, U.Roman3>>,
      <<U.Roman5, U.Roman5>>, <<U.Roman7, U.Roman8>>, <<U.MathI, U.MathI>>,
      <<U.Hangul, U.Hangul>> }

RangeLists == StringsUpTo(RangePool, MaxRanges)

\* raw strings handed to getPattern
InputChars == {U.i, U.v, U.x, U.Roman2}
Inputs == StringsUpTo(InputChars, MaxLen)

\* raw strings handed to fold
FoldChars ==
    { U.I, U.iacute, U.Oslash, U.AE, U.HebZarqa, U.HebTipeha,
      U.TibI, U.TibII, U.TibOO, U.RomanCapII, U.Acute, U.MidDot, U.HalfRing }
FoldInputs == StringsUpTo(FoldChars, MaxFoldLen)

----------------------------------------------------------------------------
(* The program: the module state and the calls of its exported functions.  *)

NoMap == [defined |-> FALSE, map |-> <<>>]
NoReg == [defined |-> FALSE, keys |-> <<>>]
NoBuilt == [op |-> "none", ranges |-> <<>>, sets |-> EmptySets, map |-> <<>>]

Init ==
    /\ unicode_map = NoMap
    /\ multi_char_reg = NoReg
    /\ pc = "idle"
    /\ input = <<>>
    /\ str = <<>>
    /\ i = 0
    /\ sequences = <<>>
    /\ pattern = <<>>
    /\ ret = Undefined
    /\ built = NoBuilt

\* index.mjs:198 generateMap assigns the module's multi_char_reg
RegOf(code_points_arg) ==
    [defined |-> TRUE, keys |-> MultiCharOfSets(generateSets(code_points_arg))]

\* index.mjs:35 initialize: unicode_map and multi_char_reg afterwards
InitializedMap(code_points_arg) ==
    IF unicode_map.defined THEN unicode_map
    ELSE [defined |-> TRUE, map |-> generateMap(code_points_arg)]

InitializedReg(code_points_arg) ==
    IF unicode_map.defined THEN multi_char_reg ELSE RegOf(code_points_arg)

\* initialize(ranges)
Initialize(ranges) ==
    /\ pc = "idle"
    /\ unicode_map' = InitializedMap(ranges)
    /\ multi_char_reg' = InitializedReg(ranges)
    /\ UNCHANGED <<pc, input, str, i, sequences, pattern, ret, built>>

\* generateMap(ranges), called from outside the module
GenerateMapCall(ranges) ==
    /\ pc = "idle"
    /\ multi_char_reg' = RegOf(ranges)
    /\ built' = [op |-> "generateMap", ranges |-> ranges,
                 sets |-> generateSets(ranges), map |-> generateMap(ranges)]
    /\ pc' = "built"
    /\ UNCHANGED <<unicode_map, input, str, i, sequences, pattern, ret>>

\* generateSets(ranges)
GenerateSetsCall(ranges) ==
    /\ pc = "idle"
    /\ built' = [op |-> "generateSets", ranges |-> ranges,
                 sets |-> generateSets(ranges), map |-> <<>>]
    /\ pc' = "built"
    /\ UNCHANGED <<unicode_map, multi_char_reg, input, str, i, sequences, pattern, ret>>

\* asciifold(s)
Fold(s) ==
    /\ pc = "idle"
    /\ input' = s
    /\ str' = asciifold(s)
    /\ pc' = "folded"
    /\ UNCHANGED <<unicode_map, multi_char_reg, i, sequences, pattern, ret, built>>

\* index.mjs:409-422 getPattern(s) up to the scan loop: a string without a
\* multi-character match returns at once
GetPattern(s) ==
    /\ pc = "idle"
    /\ unicode_map' = InitializedMap(code_points)
    /\ multi_char_reg' = InitializedReg(code_points)
    /\ input' = s
    /\ str' = asciifold(s)
    /\ i' = 0
    /\ pattern' = <<>>
    /\ IF ~MatchesMulti(multi_char_reg'.keys, str')
       THEN /\ ret' = mapSequence(unicode_map'.map, [n \in 1..Len(str') |-> <<str'[n]>>], 0)
            /\ sequences' = <<>>
            /\ pc' = "done"
       ELSE /\ ret' = Undefined
            /\ sequences' = <<NewSequence>>
            /\ pc' = "scan"
    /\ UNCHANGED built

\* index.mjs:424-507 one turn of the scan loop
ScanStep ==
    /\ pc = "scan"
    /\ i < Len(str)
    /\ LET turn == ScanTurn(unicode_map.map, multi_char_reg.keys, str, i, sequences, pattern)
       IN /\ sequences' = turn.sequences
          /\ pattern' = turn.pattern
    /\ i' = i + 1
    /\ UNCHANGED <<unicode_map, multi_char_reg, pc, input, str, ret, built>>

\* index.mjs:509-511 after the loop
Finish ==
    /\ pc = "scan"
    /\ i = Len(str)
    /\ pattern' = Append(pattern, sequencesToPattern(unicode_map.map, sequences, TRUE))
    /\ ret' = Emitted(pattern')
    /\ pc' = "done"
    /\ UNCHANGED <<unicode_map, multi_char_reg, input, str, i, sequences, built>>

\* the call has returned and its locals are gone
Return ==
    /\ pc \in {"done", "folded", "built"}
    /\ pc' = "idle"
    /\ input' = <<>>
    /\ str' = <<>>
    /\ i' = 0
    /\ sequences' = <<>>
    /\ pattern' = <<>>
    /\ ret' = Undefined
    /\ built' = NoBuilt
    /\ UNCHANGED <<unicode_map, multi_char_reg>>

Next ==
    \/ \E ranges \in RangeLists : Initialize(ranges)
    \/ \E ranges \in RangeLists : GenerateMapCall(ranges)
    \/ \E ranges \in RangeLists : GenerateSetsCall(ranges)
    \/ \E s \in FoldInputs : Fold(s)
    \/ \E s \in Inputs : GetPattern(s)
    \/ ScanStep
    \/ Finish
    \/ Return

Spec == Init /\ [][Next]_vars

\* the calls of asciifold alone
NextFold ==
    \/ \E s \in FoldInputs : Fold(s)
    \/ Return

SpecFold == Init /\ [][NextFold]_vars

----------------------------------------------------------------------------
(* Properties.                                                             *)

Range(f) == {f[n] : n \in DOMAIN f}

\* getPattern has returned
Returned == pc = "done"

\* getPattern has returned from the scan (not from the early return)
ReturnedFromScan == pc = "done" /\ sequences # <<>>

\* the value is a pattern: a string, not undefined
IsPattern(p) == p.k # "undefined"

\* the keys of the map that are longer than one character
MultiCharKeys(m) == {key \in DOMAIN m : Len(key) > 1}

\* the raw strings made of one registered variant of each unit of seg, a unit
\* without an entry staying as it is
VariantsOfSeg(m, seg) ==
    LangCat([n \in 1..Len(seg) |->
                IF seg[n] \in DOMAIN m THEN m[seg[n]] ELSE Lit(seg[n])])

\* the ways to cut s into units: single characters and keys of the map
Segmentations(m, s) ==
    {seg \in Range(allSubstrings(s)) :
        \A n \in 1..Len(seg) : Len(seg[n]) = 1 \/ seg[n] \in DOMAIN m}

\* the raw variants of the folded string s
RawVariants(m, s) ==
    IF s = <<>> THEN {<<>>}
    ELSE UNION {VariantsOfSeg(m, seg) : seg \in Segmentations(m, s)}

\* the matcher holds exactly the multi-character keys of the map
IndexOfMap ==
    {Unescape(key) : key \in Range(multi_char_reg.keys)} = MultiCharKeys(unicode_map.map)

\* every character of s is its own fold or a variant the map registers
Registered(m, s) ==
    \A n \in 1..Len(s) :
        \/ asciifold(<<s[n]>>) = <<s[n]>>
        \/ /\ asciifold(<<s[n]>>) \in DOMAIN m
           /\ MatchesWhole(m[asciifold(<<s[n]>>)], <<s[n]>>)

\* C1: a pattern getPattern(s) returns matches s itself, as a
\* case-insensitive Unicode regular expression; stated for the scanning path,
\* a matcher that is the map's own, and an input of registered characters.
PatternSoundness ==
    ( /\ ReturnedFromScan
      /\ IsPattern(ret)
      /\ IndexOfMap
      /\ Registered(unicode_map.map, input) )
    => MatchesIn(ret, input)

\* C2: getPattern returns nothing when no character of the folded input has
\* an entry in the map and the folded input holds no multi-character key;
\* stated for a matcher that has keys.
NoOpDetection ==
    ( /\ Returned
      /\ multi_char_reg.keys # <<>>
      /\ \A n \in 1..Len(str) : <<str[n]>> \notin DOMAIN unicode_map.map
      /\ ~MatchesMulti(multi_char_reg.keys, str)
      /\ \A key \in MultiCharKeys(unicode_map.map) : ~MatchesMulti(<<key>>, str) )
    => ~Truthy(ret)

\* C3: the pattern getPattern(s) returns matches every raw string made by
\* replacing the units of the folded input by registered variants of them;
\* stated for an input that folds to one key of three characters and a
\* matcher that is the map's own.
PatternCoverage ==
    ( /\ Returned
      /\ IsPattern(ret)
      /\ IndexOfMap
      /\ str \in DOMAIN unicode_map.map
      /\ Len(str) = max_char_length )
    => \A v \in RawVariants(unicode_map.map, str) : MatchesIn(ret, v)

\* the segmentations C4 names, of the folded input iii
NamedSegmentations ==
    { <<<<U.i, U.i, U.i>>>>, <<<<U.i>>, <<U.i, U.i>>>>, <<<<U.i, U.i>>, <<U.i>>>> }

\* the keys ii and iii are registered, in the map and in the matcher
BothKeysRegistered ==
    /\ {<<U.i, U.i>>, <<U.i, U.i, U.i>>} \subseteq DOMAIN unicode_map.map
    /\ {<<U.i, U.i>>, <<U.i, U.i, U.i>>} \subseteq
           {Unescape(key) : key \in Range(multi_char_reg.keys)}

\* the returned pattern has an alternative for each named segmentation
SegmentationsIncluded ==
    (Returned /\ BothKeysRegistered /\ str = <<U.i, U.i, U.i>>) =>
        \A seg \in NamedSegmentations :
            \A v \in VariantsOfSeg(unicode_map.map, seg) : MatchesWhole(ret, v)

\* the clone index.mjs:458-461 makes of a live sequence at position pos
CloneAt(sequence, pos, text) ==
    SeqAdd(SeqClone(sequence, pos, SeqLast(sequence)), Part(pos, text))

\* in a turn of the scan, a sequence whose last part runs over a position
\* where a key begins stays live, and so does its clone or an equivalent
BothSurvive ==
    (pc = "scan" /\ i < Len(str) /\ i' = i + 1) =>
        \A n \in 1..Len(sequences) :
            LET match == MatchAt(multi_char_reg.keys, str, i)
            IN (~ExtendsInPlace(sequences[n], i) /\ match # <<>>) =>
                  /\ sequences[n] \in Range(sequences')
                  /\ \/ CloneAt(sequences[n], i, match[1]) \in Range(sequences')
                     \/ \E m \in 1..Len(sequences') :
                            /\ sequences'[m] # sequences[n]
                            /\ SameSequence(CloneAt(sequences[n], i, match[1]), sequences'[m])

\* C4: with ii and iii registered, the pattern of an input that folds to iii
\* includes the segmentations [iii], [i,ii] and [ii,i]; and when a key begins
\* inside the last part of a live sequence, the sequence and its clone (or an
\* equivalent of the clone) are both live after the turn.
OverlapCorrectness == []SegmentationsIncluded /\ [][BothSurvive]_vars

\* C4's case: the scan of iii ended with the segmentations [iii] and [i,ii]
OverlapWitness ==
    /\ ReturnedFromScan
    /\ BothKeysRegistered
    /\ str = <<U.i, U.i, U.i>>
    /\ {<<<<U.i, U.i, U.i>>>>, <<<<U.i>>, <<U.i, U.i>>>>} \subseteq
           {sequences[n].substrs : n \in 1..Len(sequences)}

\* C5: once unicode_map is built, no call changes it or the matcher, so the
\* matcher stays the multi-character keys of the map.
BuiltOnceReadOnly ==
    [][unicode_map.defined =>
        (unicode_map' = unicode_map /\ multi_char_reg' = multi_char_reg)]_vars

\* the characters a code point stands for
CharOf(c) == <<c>>

\* index.mjs:97-119 the rules by which the builder skips the character c
Skipped(c) ==
    \/ asciifold(CharOf(c)) = ToLowerCase(CharOf(c))
    \/ Len(asciifold(CharOf(c))) = 0
    \/ Len(asciifold(CharOf(c))) > max_char_length
    \/ NFC(NFKD(CharOf(c))) = CharOf(c) /\ asciifold(CharOf(c)) = NFKD(CharOf(c))

\* the code points of a list of ranges
CodePointsOf(ranges) ==
    UNION {{c \in (ranges[n][1])..(ranges[n][2]) : TRUE} : n \in 1..Len(ranges)}

\* C6: for every code point of the ranges that the rules do not skip, its
\* fold is a key of the map generateMap returns and the key's fragment
\* matches the character.
MapTotality ==
    (pc = "built" /\ built.op = "generateMap") =>
        \A c \in CodePointsOf(built.ranges) :
            ~Skipped(c) =>
                /\ asciifold(CharOf(c)) \in DOMAIN built.map
                /\ MatchesWhole(built.map[asciifold(CharOf(c))], CharOf(c))

\* C7: fold(fold(s)) = fold(s).
FoldIdempotent == pc = "folded" => asciifold(str) = str

\* a part is well formed, index.mjs:449
PartOk(part) ==
    /\ part.end = part.start + part.length
    /\ part.length = Len(part.substr)

\* the parts of a sequence follow one another and cover its span
SequenceOk(sequence) ==
    /\ \A n \in 1..Len(sequence.parts) : PartOk(sequence.parts[n])
    /\ \A n \in 1..(Len(sequence.parts) - 1) :
          sequence.parts[n + 1].start = sequence.parts[n].end
    /\ sequence.parts # <<>> =>
          /\ sequence.parts[1].start = sequence.start
          /\ SeqLast(sequence).end = sequence.end

\* C8: every live sequence is a contiguous list of well-formed parts that
\* covers [sequence.start, sequence.end), also after the clean-up; stated for
\* a matcher that has keys.
SequenceInvariant ==
    (pc \in {"scan", "done"} /\ multi_char_reg.keys # <<>>) =>
        \A n \in 1..Len(sequences) : SequenceOk(sequences[n])

\* C9: when a part has no pattern, getPattern returns nothing; stated for a
\* matcher that has keys.
EmptyPropagates ==
    ( /\ ReturnedFromScan
      /\ multi_char_reg.keys # <<>>
      /\ \E n \in 1..Len(sequences) : \E j \in 1..Len(sequences[n].parts) :
            substringsToPattern(unicode_map.map, sequences[n].substrs[j], 1) = Undefined )
    => ~IsPattern(ret)

\* C10: in a turn at a position past the first where every live sequence
\* takes the same run in place, the live set becomes one sequence holding
\* only that run, the sequences covered the same span up to the position,
\* and their common prefix is emitted.
CompactionStep ==
    (pc = "scan" /\ i < Len(str) /\ i' = i + 1) =>
        LET match == MatchAt(multi_char_reg.keys, str, i)
            run == Part(i, IF match # <<>> THEN match[1] ELSE CharAt(str, i))
        IN (i > 0 /\ \A n \in 1..Len(sequences) : ExtendsInPlace(sequences[n], i)) =>
              /\ sequences' = <<SeqAdd(NewSequence, run)>>
              /\ \A n \in 1..Len(sequences) :
                    /\ sequences[n].parts # <<>>
                    /\ SeqLast(sequences[n]).end = i
                    /\ sequences[n].parts[1].start = sequences[1].parts[1].start
              /\ Len(pattern') = Len(pattern) + 1
              /\ pattern'[Len(pattern')] =
                    sequencesToPattern(unicode_map.map,
                        [n \in 1..Len(sequences) |-> SeqAdd(sequences[n], run)], FALSE)

\* C10: every turn of the scan is as CompactionStep says.
Compaction == [][CompactionStep]_vars

====
